---------------------------- MODULE Spec2Model ----------------------------
(***************************************************************************)
(* Halo exchange of the cubed-sphere solver (JAX-DevLab-Examples.py).      *)
(*                                                                         *)
(* A Field is 6 tiles of (N+2) x (N+2) cells: an N x N interior (rows and  *)
(* columns 1..N) inside a one-cell halo (row/column 0 and N+1).            *)
(* make_halo_exchange binds one exchange_edge_pair per adjacency of the    *)
(* schedule and returns a function that applies them in order.             *)
(*                                                                         *)
(* extract_boundary_data and set_ghost_data are called by                  *)
(* exchange_edge_pair but their bodies are not part of the source file;    *)
(* they are modelled from section 4.1 of the specification.                *)
(***************************************************************************)
EXTENDS Integers, Sequences, FiniteSets, TLC

\* ------------------------------------------------------------------ bounds

\* Largest interior resolution N handed to make_halo_exchange.
MaxN == 4
\* Number of successive calls of the exchange function.
MaxCalls == 3
\* Largest cell value of the enumerated boundary vectors.
MaxVal == 1

\* ------------------------------------------------------------- vocabulary

Faces == 0..5
Edges == {"N", "E", "S", "W"}
\* The tags apply_operations accepts.
Tags == {"N", "T", "R", "TR"}

Range(s) == {s[k] : k \in DOMAIN s}

\* ---------------------------------------------------------------- schedule

\* The schedule with the third adjacency of stage 0 mistyped: (5,"E") became
\* (4,"W"), an endpoint the second adjacency of the stage already uses.
create_communication_schedule_typo ==
  << << << <<0, "N">>, <<1, "N">>, "R"  >>,
        << <<3, "E">>, <<4, "W">>, "N"  >>,
        << <<2, "S">>, <<4, "W">>, "TR" >> >>,
     << << <<0, "E">>, <<4, "N">>, "T"  >>,
        << <<2, "E">>, <<3, "W">>, "N"  >>,
        << <<1, "S">>, <<5, "N">>, "N"  >> >>,
     << << <<0, "W">>, <<2, "N">>, "TR" >>,
        << <<1, "W">>, <<4, "E">>, "N"  >>,
        << <<3, "S">>, <<5, "S">>, "R"  >> >>,
     << << <<0, "S">>, <<3, "N">>, "N"  >>,
        << <<1, "E">>, <<2, "W">>, "N"  >>,
        << <<4, "S">>, <<5, "W">>, "T"  >> >> >>

\* 4 stages of 3 adjacencies ((face_a, edge_a), (face_b, edge_b), operations).
create_communication_schedule ==
  << << << <<0, "N">>, <<1, "N">>, "R"  >>,
        << <<3, "E">>, <<4, "W">>, "N"  >>,
        << <<2, "S">>, <<5, "E">>, "TR" >> >>,
     << << <<0, "E">>, <<4, "N">>, "T"  >>,
        << <<2, "E">>, <<3, "W">>, "N"  >>,
        << <<1, "S">>, <<5, "N">>, "N"  >> >>,
     << << <<0, "W">>, <<2, "N">>, "TR" >>,
        << <<1, "W">>, <<4, "E">>, "N"  >>,
        << <<3, "S">>, <<5, "S">>, "R"  >> >>,
     << << <<0, "S">>, <<3, "N">>, "N"  >>,
        << <<1, "E">>, <<2, "W">>, "N"  >>,
        << <<4, "S">>, <<5, "W">>, "T"  >> >> >>

\* ------------------------------------------------------- edge addressing

\* The outermost interior row/column of a tile at an edge, as a vector of n
\* cells in increasing index order (N = top interior row, S = bottom,
\* W = leftmost column, E = rightmost column).
extract_boundary_data(tile, edge, n) ==
  CASE edge = "N" -> [k \in 1..n |-> tile[1][k]]
    [] edge = "S" -> [k \in 1..n |-> tile[n][k]]
    [] edge = "W" -> [k \in 1..n |-> tile[k][1]]
    [] edge = "E" -> [k \in 1..n |-> tile[k][n]]

\* The tile with the n halo cells just outside an edge replaced by data;
\* every other cell (interior, other halos, corners) as it was.
set_ghost_data(tile, edge, data, n) ==
  [i \in 0..(n + 1) |-> [j \in 0..(n + 1) |->
     CASE edge = "N" /\ i = 0     /\ j \in 1..n -> data[j]
       [] edge = "S" /\ i = n + 1 /\ j \in 1..n -> data[j]
       [] edge = "W" /\ j = 0     /\ i \in 1..n -> data[i]
       [] edge = "E" /\ j = n + 1 /\ i \in 1..n -> data[i]
       [] OTHER -> tile[i][j]]]

\* ------------------------------------------------- orientation transform

\* data[::-1]
Reverse(data) == [k \in 1..Len(data) |-> data[Len(data) + 1 - k]]

\* A shift by one cell in place of the reversal.
Roll(data) == [k \in 1..Len(data) |-> data[IF k = 1 THEN Len(data) ELSE k - 1]]

\* apply_operations with the reversal replaced by a roll.
apply_operations_roll(data, operations) ==
  CASE operations = "N"  -> data
    [] operations = "T"  -> data
    [] operations = "R"  -> Roll(data)
    [] operations = "TR" -> Roll(data)

\* No OTHER arm: any other tag raises ValueError.
apply_operations(data, operations) ==
  CASE operations = "N"  -> data
    [] operations = "T"  -> data
    [] operations = "R"  -> Reverse(data)
    [] operations = "TR" -> Reverse(data)

\* ------------------------------------------------------- exchange engine

\* exchange_edge_pair with the second write built from face_b's tile.
exchange_edge_pair_wrong_tile(field_ghosts, face_a, edge_a, face_b, edge_b, operations, n) ==
  LET data_a    == extract_boundary_data(field_ghosts[face_a], edge_a, n)
      data_b    == extract_boundary_data(field_ghosts[face_b], edge_b, n)
      data_to_b == apply_operations(data_a, operations)
      data_to_a == apply_operations(data_b, operations)
      f1 == [field_ghosts EXCEPT ![face_b] =
                set_ghost_data(field_ghosts[face_b], edge_b, data_to_b, n)]
  IN  [f1 EXCEPT ![face_a] = set_ghost_data(f1[face_b], edge_a, data_to_a, n)]

\* exchange_edge_pair with each side receiving its own data back.
exchange_edge_pair_swapped(field_ghosts, face_a, edge_a, face_b, edge_b, operations, n) ==
  LET data_a    == extract_boundary_data(field_ghosts[face_a], edge_a, n)
      data_b    == extract_boundary_data(field_ghosts[face_b], edge_b, n)
      data_to_b == apply_operations(data_a, operations)
      data_to_a == apply_operations(data_b, operations)
      f1 == [field_ghosts EXCEPT ![face_b] =
                set_ghost_data(field_ghosts[face_b], edge_b, data_to_a, n)]
  IN  [f1 EXCEPT ![face_a] = set_ghost_data(f1[face_a], edge_a, data_to_b, n)]

\* Bidirectional exchange between two edges: both boundaries are extracted
\* first, then face_b's tile is replaced, then face_a's tile (read from the
\* field as updated by the first write).
exchange_edge_pair(field_ghosts, face_a, edge_a, face_b, edge_b, operations, n) ==
  LET data_a    == extract_boundary_data(field_ghosts[face_a], edge_a, n)
      data_b    == extract_boundary_data(field_ghosts[face_b], edge_b, n)
      data_to_b == apply_operations(data_a, operations)
      data_to_a == apply_operations(data_b, operations)
      f1 == [field_ghosts EXCEPT ![face_b] =
                set_ghost_data(field_ghosts[face_b], edge_b, data_to_b, n)]
  IN  [f1 EXCEPT ![face_a] = set_ghost_data(f1[face_a], edge_a, data_to_a, n)]

\* partial(exchange_edge_pair, face_a=..., edge_a=..., face_b=..., edge_b=...,
\* operations=..., N=N): the static arguments of one adjacency, frozen.
partial(adj, n) ==
  [face_a |-> adj[1][1], edge_a |-> adj[1][2],
   face_b |-> adj[2][1], edge_b |-> adj[2][2],
   operations |-> adj[3], N |-> n]

\* Calling a bound exchange function on a field.
exchange_fn(fn, field_ghosts) ==
  exchange_edge_pair(field_ghosts, fn.face_a, fn.edge_a, fn.face_b, fn.edge_b,
                     fn.operations, fn.N)

\* The loop of make_halo_exchange: one bound function per adjacency, stage
\* after stage, in the order of the schedule.  Nothing is validated.
RECURSIVE make_halo_exchange(_, _)
make_halo_exchange(sched, n) ==
  IF sched = << >> THEN << >>
  ELSE [k \in 1..Len(Head(sched)) |-> partial(Head(sched)[k], n)]
         \o make_halo_exchange(Tail(sched), n)

\* The composed function: every bound exchange applied in list order.
RECURSIVE cubesphere_halo_exchange(_, _)
cubesphere_halo_exchange(field_ghosts, fns) ==
  IF fns = << >> THEN field_ghosts
  ELSE cubesphere_halo_exchange(exchange_fn(Head(fns), field_ghosts), Tail(fns))


\* ------------------------------------------------------------------ inputs

\* A field whose 6 * (n+2)^2 cells, halo and corners included, all hold
\* different values: the exchange only moves cells, so where each value ends
\* up shows which cell it was copied from.
UniqueField(n) ==
  [t \in Faces |-> [i \in 0..(n + 1) |-> [j \in 0..(n + 1) |->
     t * (n + 2) * (n + 2) + i * (n + 2) + j + 1]]]

\* Interior rows t*n+1 .. t*n+n on every tile (tile 0: 1..n, tile 1:
\* n+1..2n), halo and corners zero.
RowField(n) ==
  [t \in Faces |-> [i \in 0..(n + 1) |-> [j \in 0..(n + 1) |->
     IF i \in 1..n /\ j \in 1..n THEN t * n + j ELSE 0]]]

\* Interior columns t*n+1 .. t*n+n on every tile, halo and corners -1.
ColumnField(n) ==
  [t \in Faces |-> [i \in 0..(n + 1) |-> [j \in 0..(n + 1) |->
     IF i \in 1..n /\ j \in 1..n THEN t * n + i ELSE -1]]]

\* field_ghosts: (6, N+2, N+2) with uninitialized ghosts.
InputFields(n) == {UniqueField(n), RowField(n), ColumnField(n)}

\* The schedule without the k-th adjacency of stage s.
DropAdjacency(sched, s, k) ==
  [sched EXCEPT ![s] = [m \in 1..(Len(sched[s]) - 1) |->
                          IF m < k THEN sched[s][m] ELSE sched[s][m + 1]]]

\* The schedules handed to make_halo_exchange: the one of
\* create_communication_schedule, and each one missing a single adjacency.
Schedules ==
  {create_communication_schedule}
    \cup {DropAdjacency(create_communication_schedule, s, k) : s \in 1..4, k \in 1..3}

\* ------------------------------------------------------------------- state

VARIABLES
  schedule,            \* the schedule argument of make_halo_exchange
  N,                   \* the N argument of make_halo_exchange
  exchange_functions,  \* the list make_halo_exchange builds
  pc,                  \* "start", "ready" (built, no call running), "running"
  input,               \* the Field of the first call
  caller,              \* the Field the caller holds (what a reader can see)
  field_ghosts,        \* the local field_ghosts of the running call
  applied,             \* indices of exchange_functions applied in this call
  last,                \* index of the one applied last (0: none yet)
  before,              \* field_ghosts as it was before the last exchange
  outputs,             \* the Fields returned by the calls so far
  observed,            \* the Field an external reader saw last
  read_mid             \* whether that read fell between two exchanges of a call

vars == <<schedule, N, exchange_functions, pc, input, caller, field_ghosts,
          applied, last, before, outputs, observed, read_mid>>

\* Number of adjacencies in the stages before stage s (1-based).
RECURSIVE StageOffset(_, _)
StageOffset(sched, s) ==
  IF s <= 1 THEN 0 ELSE StageOffset(sched, s - 1) + Len(sched[s - 1])

\* The indices of exchange_functions that stage s contributed.
StageIndices(sched, s) ==
  (StageOffset(sched, s) + 1)..(StageOffset(sched, s) + Len(sched[s]))

InitWith(scheds) ==
  /\ schedule \in scheds
  /\ N \in 1..MaxN
  /\ exchange_functions = << >>
  /\ pc = "start"
  /\ input \in InputFields(N)
  /\ caller = input
  /\ field_ghosts = input
  /\ applied = {}
  /\ last = 0
  /\ before = input
  /\ outputs = << >>
  /\ observed = input
  /\ read_mid = FALSE

\* The documented use: the schedule comes from create_communication_schedule().
Init == InitWith({create_communication_schedule})

\* Any schedule argument, well-formed or missing an adjacency.
InitBuild == InitWith(Schedules)

\* make_halo_exchange(schedule, N): builds the list and returns the composed
\* function.  It has no failing path.
MakeHaloExchange ==
  /\ pc = "start"
  /\ exchange_functions' = make_halo_exchange(schedule, N)
  /\ pc' = "ready"
  /\ UNCHANGED <<schedule, N, input, caller, field_ghosts, applied, last, before,
                 outputs, observed, read_mid>>

\* The caller invokes the exchange function on the Field it holds.
Call ==
  /\ pc = "ready"
  /\ Len(outputs) < MaxCalls
  /\ field_ghosts' = caller
  /\ before' = caller
  /\ applied' = {}
  /\ last' = 0
  /\ pc' = "running"
  /\ UNCHANGED <<schedule, N, exchange_functions, input, caller, outputs, observed, read_mid>>

\* One iteration with the caller's Field updated in place.
ExchangeStepInPlace ==
  /\ pc = "running"
  /\ Cardinality(applied) < Len(exchange_functions)
  /\ LET i == Cardinality(applied) + 1 IN
       /\ before' = field_ghosts
       /\ field_ghosts' = exchange_fn(exchange_functions[i], field_ghosts)
       /\ caller' = field_ghosts'
       /\ applied' = applied \cup {i}
       /\ last' = i
  /\ UNCHANGED <<schedule, N, exchange_functions, pc, input, outputs, observed, read_mid>>

\* One iteration of `for exchange_fn in exchange_functions:
\* field_ghosts = exchange_fn(field_ghosts)`: the next function of the list
\* is applied and the local name rebound to the array it returns.
ExchangeStep ==
  /\ pc = "running"
  /\ Cardinality(applied) < Len(exchange_functions)
  /\ LET i == Cardinality(applied) + 1 IN
       /\ before' = field_ghosts
       /\ field_ghosts' = exchange_fn(exchange_functions[i], field_ghosts)
       /\ applied' = applied \cup {i}
       /\ last' = i
  /\ UNCHANGED <<schedule, N, exchange_functions, pc, input, caller, outputs, observed, read_mid>>

\* The stage the running call is in: the first one with a function not yet
\* applied (0 when all are applied).
CurrentStage ==
  LET open == {s \in 1..Len(schedule) : ~(StageIndices(schedule, s) \subseteq applied)}
  IN  IF open = {} THEN 0 ELSE CHOOSE s \in open : \A r \in open : s <= r

\* The same loop with the adjacencies of a stage taken in any order, the
\* stages in their fixed order.
PermutedStep ==
  /\ pc = "running"
  /\ CurrentStage # 0
  /\ \E i \in StageIndices(schedule, CurrentStage) \ applied :
       /\ before' = field_ghosts
       /\ field_ghosts' = exchange_fn(exchange_functions[i], field_ghosts)
       /\ applied' = applied \cup {i}
       /\ last' = i
  /\ UNCHANGED <<schedule, N, exchange_functions, pc, input, caller, outputs, observed, read_mid>>

\* `return field_ghosts`: the caller now holds the returned Field.
Return ==
  /\ pc = "running"
  /\ applied = 1..Len(exchange_functions)
  /\ caller' = field_ghosts
  /\ outputs' = Append(outputs, field_ghosts)
  /\ pc' = "ready"
  /\ UNCHANGED <<schedule, N, exchange_functions, input, field_ghosts, applied,
                 last, before, observed, read_mid>>

\* Some but not all exchanges of the running call are applied.
MidExchange ==
  pc = "running" /\ applied # {} /\ applied # 1..Len(exchange_functions)

\* An external reader looks at the Field the caller holds, at any moment.
Read ==
  /\ observed # caller \/ read_mid # MidExchange
  /\ observed' = caller
  /\ read_mid' = MidExchange
  /\ UNCHANGED <<schedule, N, exchange_functions, pc, input, caller,
                 field_ghosts, applied, last, before, outputs>>

Next == MakeHaloExchange \/ Call \/ ExchangeStep \/ Return \/ Read

NextPerm == MakeHaloExchange \/ Call \/ PermutedStep \/ Return \/ Read

\* The program as written.
Spec == Init /\ [][Next]_vars

\* The program with each stage's adjacencies applied in an arbitrary order.
SpecPerm == Init /\ [][NextPerm]_vars

\* The program as written, built from an arbitrary schedule argument.
SpecBuild == InitBuild /\ [][Next]_vars


\* ------------------------------------------------------ claims: schedule

\* The places of a schedule where an endpoint stands: stage, position in the
\* stage, side of the adjacency.
Places(sched) ==
  {p \in (1..Len(sched)) \X (1..12) \X {1, 2} : p[2] <= Len(sched[p[1]])}

\* The places of stage s alone.
PlacesOfStage(sched, s) == {p \in Places(sched) : p[1] = s}

EndpointAt(sched, p) == sched[p[1]][p[2]][p[3]]

\* C1: over the 4 stages of the schedule, every (tile, edge) pair with tile
\* in 0..5 and edge in {N,E,S,W} is the endpoint of exactly one adjacency:
\* the schedule has 24 endpoint places, each holds one of the 24 pairs, and
\* each pair stands in exactly one place.  The list make_halo_exchange builds
\* from it has the same 24 endpoints, once each.
C1_Coverage ==
  /\ Len(schedule) = 4
  /\ Cardinality(Places(schedule)) = 24
  /\ \A p \in Places(schedule) : EndpointAt(schedule, p) \in Faces \X Edges
  /\ \A t \in Faces, e \in Edges :
       Cardinality({p \in Places(schedule) : EndpointAt(schedule, p) = <<t, e>>}) = 1
  /\ pc # "start" =>
       \A t \in Faces, e \in Edges :
         Cardinality({i \in DOMAIN exchange_functions :
                        \/ exchange_functions[i].face_a = t /\ exchange_functions[i].edge_a = e
                        \/ exchange_functions[i].face_b = t /\ exchange_functions[i].edge_b = e}) = 1

\* The schedule has been handed to make_halo_exchange and its 12 adjacencies
\* bound.
C1_Witness ==
  /\ pc = "ready"
  /\ Len(exchange_functions) = 12
  /\ {EndpointAt(schedule, p) : p \in Places(schedule)} = Faces \X Edges

\* C2: within every stage of the schedule, no (tile, edge) endpoint stands in
\* two places, be it in two adjacencies of the stage or on both sides of one.
C2_StageDisjoint ==
  \A s \in 1..Len(schedule) :
    \A p, q \in PlacesOfStage(schedule, s) :
      p # q => EndpointAt(schedule, p) # EndpointAt(schedule, q)

\* A call has run through a whole stage of three adjacencies with six
\* different endpoints.
C2_Witness ==
  /\ pc = "running"
  /\ applied = StageIndices(schedule, 1)
  /\ Cardinality({EndpointAt(schedule, p) : p \in PlacesOfStage(schedule, 1)}) = 6

\* The tiles an applied exchange function replaces: face_b, then face_a.
Targets(i) == <<exchange_functions[i].face_b, exchange_functions[i].face_a>>

\* C10: every adjacency joins two different tiles, in every stage each of the
\* 6 tiles is an endpoint of exactly one adjacency, and so the tile
\* replacements done so far in the stage a call is in all target different
\* tiles.
C10_TilesOncePerStage ==
  /\ \A p \in Places(schedule) :
       p[3] = 1 => EndpointAt(schedule, p)[1] # EndpointAt(schedule, <<p[1], p[2], 2>>)[1]
  /\ \A s \in 1..Len(schedule) : \A t \in Faces :
       Cardinality({p \in PlacesOfStage(schedule, s) : EndpointAt(schedule, p)[1] = t}) = 1
  /\ pc = "running" =>
       \A s \in 1..Len(schedule) :
         LET done == applied \cap StageIndices(schedule, s) IN
           Cardinality({<<i, side>> \in done \X {1, 2} : TRUE})
             = Cardinality({Targets(i)[side] : <<i, side>> \in done \X {1, 2}})

\* A call has finished its last stage: its three exchanges replaced six
\* different tiles.
C10_Witness ==
  /\ pc = "running"
  /\ applied = 1..12
  /\ {Targets(i)[side] : <<i, side>> \in StageIndices(schedule, 4) \X {1, 2}} = Faces

\* ----------------------------------------------------- claims: transform

\* The boundary vectors of length n over 0..MaxVal.
Vectors(n) == [1..n -> 0..MaxVal]

\* The vectors that lie on a field: each tile's four interior boundaries.
BoundaryVectors(field, n) ==
  {extract_boundary_data(field[t], e, n) : t \in Faces, e \in Edges}

\* C6: for every boundary vector x (all vectors of length N over 0..MaxVal,
\* and every interior boundary of the field being exchanged) and every tag
\* apply_operations accepts, applying the tag twice gives x back, and the
\* identity tag "N" gives x itself.
C6_Involution ==
  \A x \in Vectors(N) \cup BoundaryVectors(field_ghosts, N) :
    /\ \A op \in Tags : apply_operations(apply_operations(x, op), op) = x
    /\ apply_operations(x, "N") = x

\* An exchange with a reversing tag has just run on boundaries that the
\* reversal really changes.
C6_Witness ==
  /\ pc = "running"
  /\ last # 0
  /\ exchange_functions[last].operations \in {"R", "TR"}
  /\ LET x == extract_boundary_data(before[exchange_functions[last].face_a],
                                    exchange_functions[last].edge_a, N)
     IN  /\ apply_operations(x, exchange_functions[last].operations) # x
         /\ apply_operations(apply_operations(x, "R"), "R") = x


\* -------------------------------------------------------- claims: engine

\* The n halo cells just outside an edge of a tile, in increasing index order.
ghost_data(tile, edge, n) ==
  CASE edge = "N" -> [k \in 1..n |-> tile[0][k]]
    [] edge = "S" -> [k \in 1..n |-> tile[n + 1][k]]
    [] edge = "W" -> [k \in 1..n |-> tile[k][0]]
    [] edge = "E" -> [k \in 1..n |-> tile[k][n + 1]]

IsInterior(i, j, n) == i \in 1..n /\ j \in 1..n

IsCorner(i, j, n) == i \in {0, n + 1} /\ j \in {0, n + 1}

\* The field with every halo and corner cell overwritten by one value.
Scrub(field, n, v) ==
  [t \in Faces |-> [i \in 0..(n + 1) |-> [j \in 0..(n + 1) |->
     IF IsInterior(i, j, n) THEN field[t][i][j] ELSE v]]]

\* What C5 says of one call exchange_edge_pair(pre, fa, ea, fb, eb, op, n)
\* that returned post.
PairExchanged(pre, post, fa, ea, fb, eb, op, n) ==
  /\ ghost_data(post[fb], eb, n) = apply_operations(extract_boundary_data(pre[fa], ea, n), op)
  /\ ghost_data(post[fa], ea, n) = apply_operations(extract_boundary_data(pre[fb], eb, n), op)

\* C5: after exchange_edge_pair on (tile_a, edge_a) <-> (tile_b, edge_b, op),
\* the halo of tile_b outside edge_b is transform(interior boundary of tile_a
\* at edge_a, op) and the halo of tile_a outside edge_a is transform(interior
\* boundary of tile_b at edge_b, op), the boundaries taken from the field as
\* it was before the call; the same halos result when every halo cell of that
\* field is overwritten first, so no halo cell is read.  With N = 4, tag "R",
\* north rows [1,2,3,4] on tile 0 and [5,6,7,8] on tile 1, tile 0's north halo
\* becomes [8,7,6,5] and tile 1's [4,3,2,1].  Between calls the same is
\* checked of exchange_edge_pair on every pair of edges and every tag.
C5_PairExchange ==
  /\ (pc = "running" /\ last # 0) =>
       LET fn == exchange_functions[last]
           scrubbed == exchange_fn(fn, Scrub(before, N, -7))
       IN  /\ PairExchanged(before, field_ghosts, fn.face_a, fn.edge_a,
                            fn.face_b, fn.edge_b, fn.operations, N)
           /\ ghost_data(scrubbed[fn.face_a], fn.edge_a, N)
                = ghost_data(field_ghosts[fn.face_a], fn.edge_a, N)
           /\ ghost_data(scrubbed[fn.face_b], fn.edge_b, N)
                = ghost_data(field_ghosts[fn.face_b], fn.edge_b, N)
           /\ ( /\ fn.face_a = 0 /\ fn.edge_a = "N"
                /\ fn.face_b = 1 /\ fn.edge_b = "N"
                /\ fn.operations = "R"
                /\ extract_boundary_data(before[0], "N", N) = <<1, 2, 3, 4>>
                /\ extract_boundary_data(before[1], "N", N) = <<5, 6, 7, 8>> )
              => /\ ghost_data(field_ghosts[0], "N", N) = <<8, 7, 6, 5>>
                 /\ ghost_data(field_ghosts[1], "N", N) = <<4, 3, 2, 1>>
  /\ pc = "ready" =>
       \A fa \in Faces, fb \in Faces, ea \in Edges, eb \in Edges, op \in Tags :
         PairExchanged(caller,
                       exchange_edge_pair(caller, fa, ea, fb, eb, op, N),
                       fa, ea, fb, eb, op, N)

\* The scenario of the claim: the (0,N) <-> (1,N) exchange with tag "R" has
\* just run on north rows [1,2,3,4] and [5,6,7,8].
C5_Witness ==
  /\ pc = "running"
  /\ last = 1
  /\ N = 4
  /\ exchange_functions[1] = [face_a |-> 0, edge_a |-> "N", face_b |-> 1,
                              edge_b |-> "N", operations |-> "R", N |-> 4]
  /\ extract_boundary_data(before[0], "N", N) = <<1, 2, 3, 4>>
  /\ extract_boundary_data(before[1], "N", N) = <<5, 6, 7, 8>>
  /\ ghost_data(before[0], "N", N) = <<0, 0, 0, 0>>
  /\ ghost_data(field_ghosts[0], "N", N) = <<8, 7, 6, 5>>

\* The cells of a field the exchange must leave alone agree with the input.
FrameKept(field) ==
  \A t \in Faces : \A i \in 0..(N + 1), j \in 0..(N + 1) :
    (IsInterior(i, j, N) \/ IsCorner(i, j, N)) => field[t][i][j] = input[t][i][j]

\* C8: in every Field the engine produces (the running call's field_ghosts,
\* the Field the caller holds, every returned Field, anything a reader saw),
\* after any number of calls, each interior cell and each of the 4 corner
\* halo cells of every tile has the value it had in the input.
C8_InteriorAndCornersKept ==
  /\ FrameKept(field_ghosts)
  /\ FrameKept(caller)
  /\ FrameKept(observed)
  /\ \A k \in DOMAIN outputs : FrameKept(outputs[k])

\* Two calls have returned and edge halos were written.
C8_Witness ==
  /\ Len(outputs) >= 2
  /\ caller # input
  /\ \E t \in Faces, e \in Edges :
       ghost_data(caller[t], e, N) # ghost_data(input[t], e, N)

\* C4: every call of the exchange function on the output of the previous
\* call returns that output again: exchange(exchange(F)) = exchange(F), for
\* every further call.
C4_Idempotent ==
  /\ \A k \in DOMAIN outputs : k > 1 => outputs[k] = outputs[k - 1]
  /\ (pc = "ready" /\ outputs # << >>) =>
       cubesphere_halo_exchange(caller, exchange_functions) = caller

\* The exchange function was called on its own output and returned, the
\* first call having changed the Field.
C4_Witness ==
  /\ Len(outputs) >= 2
  /\ pc = "ready"
  /\ outputs[1] # input
  /\ outputs[2] = outputs[1]

\* Every edge halo of the field holds its neighbour's transformed interior
\* boundary, for all adjacencies bound by make_halo_exchange.
AllHalosFilled(field) ==
  \A i \in DOMAIN exchange_functions :
    LET fn == exchange_functions[i] IN
      PairExchanged(field, field, fn.face_a, fn.edge_a, fn.face_b, fn.edge_b,
                    fn.operations, N)

\* C9: whatever a reader can see or has seen (the Field the caller holds) is
\* the Field passed to the first call or a Field a call returned, never one
\* with some but not all edge halos filled.
C9_Atomic ==
  /\ observed = input \/ (observed \in Range(outputs) /\ AllHalosFilled(observed))
  /\ caller = input \/ (caller \in Range(outputs) /\ AllHalosFilled(caller))

\* A reader looked while the second call was between two exchanges, the
\* call's own field_ghosts then being partially refilled.
C9_Witness ==
  /\ read_mid
  /\ MidExchange
  /\ Len(outputs) = 1
  /\ observed = caller
  /\ observed # input
  /\ ~AllHalosFilled(input)

\* C3 (checked with each stage's adjacencies applied in every order): when a
\* stage is complete the field equals the one the schedule's own order
\* produces up to that stage, and every returned Field is the one the
\* schedule's own order returns for the same argument.
C3_OrderIndependent ==
  /\ pc = "running" =>
       \A s \in 1..Len(schedule) :
         LET upto == StageOffset(schedule, s) + Len(schedule[s]) IN
           applied = 1..upto =>
             field_ghosts = cubesphere_halo_exchange(caller, SubSeq(exchange_functions, 1, upto))
  /\ \A k \in DOMAIN outputs :
       outputs[k] = cubesphere_halo_exchange(IF k = 1 THEN input ELSE outputs[k - 1],
                                             exchange_functions)

\* A call has applied all 12 exchanges, the last stage ending with its first
\* adjacency (not the schedule's order), and changed the field.
C3_Witness ==
  /\ pc = "running"
  /\ applied = 1..12
  /\ last = 10
  /\ field_ghosts # caller
  /\ field_ghosts = cubesphere_halo_exchange(caller, exchange_functions)

\* C7 as claimed: a schedule missing an adjacency is refused at build time,
\* so make_halo_exchange never gets past "start" with it: no list of bound
\* functions, no call, no Field returned.
C7_IncompleteScheduleRefused ==
  Cardinality(Places(schedule)) < 24 =>
    /\ pc = "start"
    /\ exchange_functions = << >>
    /\ outputs = << >>

=============================================================================
